---- MODULE Spec2Model ----
(***************************************************************************)
(* Model of myelin-geometry's ConvexHull (src/src/convex_hull.rs), the     *)
(* gift-wrapping iterator over a borrowed slice of points, and of          *)
(* Polygon::contains_point (src/src/polygon/mod.rs).                       *)
(*                                                                         *)
(* Coordinates are f64 in the source.  The model draws them from small     *)
(* integers, on which f64 subtraction, multiplication and comparison are   *)
(* exact, so Integers arithmetic computes what the code computes, and from *)
(* NaN, which poisons arithmetic and fails every comparison.               *)
(***************************************************************************)
EXTENDS Integers, Sequences, FiniteSets

\* ------------------------------------------------------------------ bounds

\* Longest input slice drawn from the coordinate grid.
MaxLen == 3
\* Grid inputs have x in 0..MaxX and y in 0..MaxY.
MaxX == 2
MaxY == 2
\* Longest grid input of the two-view specification.
MaxPermLen == 3
\* Longest input slice with NaN coordinates.
MaxNaNLen == 2
\* Most vertices of a polygon drawn from the coordinate grid.
MaxVertices == 3

\* --------------------------------------------------------------------- f64

\* f64::NAN, kept apart from every number the model computes.
NaN == -1000000

is_nan(a) == a = NaN

\* a - b
f64_sub(a, b) == IF is_nan(a) \/ is_nan(b) THEN NaN ELSE a - b

\* a * b
f64_mul(a, b) == IF is_nan(a) \/ is_nan(b) THEN NaN ELSE a * b

\* a >= b
f64_ge(a, b) == ~is_nan(a) /\ ~is_nan(b) /\ a >= b

\* a == b
f64_eq(a, b) == ~is_nan(a) /\ ~is_nan(b) /\ a = b

\* ------------------------------------------------------------------ points

\* Point { x, y }
Point(px, py) == [x |-> px, y |-> py]

\* Point's PartialEq: both coordinates equal as f64.
point_eq(a, b) == f64_eq(a.x, b.x) /\ f64_eq(a.y, b.y)

has_nan(pts) == \E i \in 1..Len(pts) : is_nan(pts[i].x) \/ is_nan(pts[i].y)

GridPoints == {Point(px, py) : px \in 0..MaxX, py \in 0..MaxY}

\* All sequences over S of length 0..n.
SeqsUpTo(S, n) == UNION {[1..len -> S] : len \in 0..n}

\* All orderings of the sequence s.
Orderings(s) ==
    LET idx == 1..Len(s)
        bij == {f \in [idx -> idx] : \A i, j \in idx : f[i] = f[j] => i = j}
    IN  {[i \in idx |-> s[f[i]]] : f \in bij}

\* The inputs of the unit tests and the doc example of convex_hull.rs, and
\* the collinear and single-point scenarios.
InputInHullOrder ==
    <<Point(5, 5), Point(10, 0), Point(15, 0), Point(20, 5), Point(10, 10)>>
InputNotSorted ==
    <<Point(20, 5), Point(10, 0), Point(10, 10), Point(15, 0), Point(5, 5)>>
InputConcave ==
    <<Point(0, 0), Point(20, 0), Point(10, 5), Point(10, 10)>>
InputCollinear ==
    <<Point(0, 0), Point(5, 0), Point(10, 0)>>
InputSingle ==
    <<Point(3, 3)>>
\* Three collinear points along a hull edge, and an apex.
InputCollinearEdge ==
    <<Point(0, 0), Point(1, 0), Point(2, 0), Point(0, 1)>>

\* The same with a point strictly inside the triangle of the other three
\* extreme points.
InputInteriorPoint ==
    <<Point(0, 0), Point(1, 0), Point(2, 0), Point(1, 1), Point(1, 2)>>

ScenarioBase ==
    {InputInHullOrder, InputConcave, InputCollinear, InputSingle,
     InputCollinearEdge, InputInteriorPoint}

ScenarioInputs ==
    UNION {Orderings(s) : s \in ScenarioBase}

GridInputs == SeqsUpTo(GridPoints, MaxLen)

Inputs == GridInputs \cup ScenarioInputs

\* Inputs in which some coordinate is NaN.
NaNPoints == {Point(px, py) : px \in {0, 1, NaN}, py \in {0, 1, NaN}}

NaNInputs == {pts \in SeqsUpTo(NaNPoints, MaxNaNLen) : has_nan(pts)}

\* ------------------------------------------------------------- Point order

\* Point's PartialOrd: compare x first, then y.  "None" when the
\* coordinates that decide the comparison are not comparable.
partial_cmp(a, b) ==
    IF is_nan(a.x) \/ is_nan(b.x) THEN "None"
    ELSE IF a.x < b.x THEN "Less"
    ELSE IF a.x > b.x THEN "Greater"
    ELSE IF is_nan(a.y) \/ is_nan(b.y) THEN "None"
    ELSE IF a.y < b.y THEN "Less"
    ELSE IF a.y > b.y THEN "Greater"
    ELSE "Equal"

\* Faulty variant: the comparison's outcome read the wrong way round.
min_by_step_max(best, p) ==
    IF partial_cmp(best, p) = "Less" THEN p ELSE best

\* One step of Iterator::min_by's fold: keep the earlier element unless the
\* later one compares strictly smaller.
min_by_step(best, p) ==
    IF partial_cmp(best, p) = "Greater" THEN p ELSE best

RECURSIVE min_by_from(_, _, _)
min_by_from(pts, i, best) ==
    IF i > Len(pts) THEN best
    ELSE CHOOSE r \in {min_by_from(pts, i + 1, b) :
                          b \in {min_by_step(best, pts[i])}} : TRUE

\* points.iter().min_by(|a, b| a.partial_cmp(&b).unwrap()) on a non-empty slice.
min_by(pts) == min_by_from(pts, 2, pts[1])

RECURSIVE unwrap_panics_from(_, _, _)
unwrap_panics_from(pts, i, best) ==
    IF i > Len(pts) THEN FALSE
    ELSE \/ partial_cmp(best, pts[i]) = "None"
         \/ \E b \in {min_by_step(best, pts[i])} :
                unwrap_panics_from(pts, i + 1, b)

\* Whether some comparison made by min_by unwraps None.  A slice of one
\* element is never compared.
unwrap_panics(pts) == unwrap_panics_from(pts, 2, pts[1])

\* ------------------------------------------------------- orientation test

\* Faulty variant: the comparison made strict.
is_counter_clockwise_turn_strict(p1, p2, p3) ==
    ~f64_ge(f64_mul(f64_sub(p2.y, p1.y), f64_sub(p3.x, p1.x)),
            f64_mul(f64_sub(p3.y, p1.y), f64_sub(p2.x, p1.x)))

is_counter_clockwise_turn(p1, p2, p3) ==
    f64_ge(f64_mul(f64_sub(p3.y, p1.y), f64_sub(p2.x, p1.x)),
           f64_mul(f64_sub(p2.y, p1.y), f64_sub(p3.x, p1.x)))

\* Faulty variant: the replacement test without its negation.
fold_closure_keeps_clockwise(endpoint, point, current) ==
    IF point_eq(endpoint, current) \/ is_counter_clockwise_turn(point, current, endpoint)
    THEN point
    ELSE endpoint

\* Faulty variant: the closure without its self-match guard.
fold_closure_no_guard(endpoint, point, current) ==
    IF ~is_counter_clockwise_turn(point, current, endpoint)
    THEN point
    ELSE endpoint

\* The closure passed to fold in find_next_point.
fold_closure(endpoint, point, current) ==
    IF point_eq(endpoint, current) \/ ~is_counter_clockwise_turn(point, current, endpoint)
    THEN point
    ELSE endpoint

\* The accumulator is bound to its value after each element, as fold does.
RECURSIVE fold_from(_, _, _, _)
fold_from(pts, i, endpoint, current) ==
    IF i > Len(pts) THEN endpoint
    ELSE CHOOSE r \in {fold_from(pts, i + 1, e, current) :
                          e \in {fold_closure(endpoint, pts[i], current)}} : TRUE

\* self.points.iter().skip(1).fold(first_point, ...) with
\* first_point = *self.points.first().unwrap()
scan(pts, current) == fold_from(pts, 2, pts[1], current)

\* ---------------------------------------------------------------- polygon

\* Vector { x, y }; From<Point> for Vector copies the coordinates.
Vector(vx, vy) == [x |-> vx, y |-> vy]

\* impl Sub for Vector
vector_sub(a, b) == Vector(a.x - b.x, a.y - b.y)

\* Faulty variant: the two products subtracted the other way round.
cross_product_swapped(a, b) == a.y * b.x - a.x * b.y

\* Vector::cross_product
cross_product(a, b) == a.x * b.y - a.y * b.x

\* EPSILON = 0.000001 = 1 / EpsilonInverse
EpsilonInverse == 1000000

\* calculate_facing_side(a, b, point), local to contains_point
calculate_facing_side(a, b, point) ==
    LET side_vector == vector_sub(b, a)
        vector_from_a_to_point == vector_sub(point, a)
        c == cross_product(side_vector, vector_from_a_to_point)
    IN  IF c * EpsilonInverse < -1 THEN "Left"
        ELSE IF c * EpsilonInverse > 1 THEN "Right"
        ELSE "OnTheLine"

\* Polygon::contains_point(&self, point)
contains_point(vertices, point) ==
    IF Len(vertices) < 2 THEN FALSE
    ELSE LET reference_side ==
                 calculate_facing_side(vertices[Len(vertices)], vertices[1], point)
         IN  \A i \in 1..(Len(vertices) - 1) :
                 LET side == calculate_facing_side(vertices[i], vertices[i + 1], point)
                 IN  ~(side # reference_side /\ side # "OnTheLine")

\* The polygon of the tests of polygon/mod.rs.
TestPolygon ==
    <<Point(-10, -10), Point(10, -10), Point(10, 10), Point(-10, 10)>>

\* Points on and around TestPolygon, among them those the tests ask about.
TestQueries ==
    {Point(px, py) : px \in {-11, -10, 0, 10, 11}, py \in {-11, -10, 0, 10, 11}}

\* ------------------------------------------------------------------ state

\* Option<Point>: None is the empty sequence, Some(p) is <<p>>.
None == <<>>
Some(p) == <<p>>

\* Placeholder for the fields of a view that has not been constructed.
NoPoint == Point(-1, -1)

Views == {1, 2}

VARIABLES
    points,          \* points[v]: the borrowed input slice of view v
    result,          \* result[v]: "NotCalled", try_new's "Ok" / "Err", or "Panic"
    leftmost_point,  \* leftmost_point[v]
    current_point,   \* current_point[v]
    state,           \* state[v]: "Initial" or "FindingNextPoint"
    ret,             \* ret[v]: what the latest call to next returned
    calls,           \* calls[v]: "none", "one" or "many" calls to next so far
    exhausted,       \* exhausted[v]: some call to next has returned None
    hull,            \* hull[v]: the points yielded before the first None,
                     \*          at most Len(points[v]) + 1 of them
    polygon,         \* a Polygon's vertices, the point asked about, and what
                     \* contains_point returned ("NotCalled", "true", "false")
    turn             \* the arguments of a call of is_counter_clockwise_turn
                     \* and what it returned ("NotCalled", "true", "false")

vars == <<points, result, leftmost_point, current_point, state, ret, calls,
          exhausted, hull, polygon, turn>>

\* No polygon is in use.
NoPolygon == [vertices |-> <<>>, point |-> NoPoint, contains_point |-> "NotCalled"]

\* No call of is_counter_clockwise_turn on its own is in use.
NoTurn ==
    [p1 |-> NoPoint, p2 |-> NoPoint, p3 |-> NoPoint,
     is_counter_clockwise_turn |-> "NotCalled"]

InitView ==
    /\ result = [v \in Views |-> "NotCalled"]
    /\ leftmost_point = [v \in Views |-> NoPoint]
    /\ current_point = [v \in Views |-> NoPoint]
    /\ state = [v \in Views |-> "Initial"]
    /\ ret = [v \in Views |-> None]
    /\ calls = [v \in Views |-> "none"]
    /\ exhausted = [v \in Views |-> FALSE]
    /\ hull = [v \in Views |-> <<>>]

\* A caller holding one input.
Init ==
    /\ \E pts \in Inputs : points = [v \in Views |-> pts]
    /\ InitView
    /\ polygon = NoPolygon
    /\ turn = NoTurn

\* A caller holding one input with a NaN coordinate.
NaNInit ==
    /\ \E pts \in NaNInputs : points = [v \in Views |-> pts]
    /\ InitView
    /\ polygon = NoPolygon
    /\ turn = NoTurn

\* A caller holding an input and a reordering of it.
PermInit ==
    /\ \E pts \in SeqsUpTo(GridPoints, MaxPermLen) \cup ScenarioBase :
         \E perm \in Orderings(pts) :
           points = [v \in Views |-> IF v = 1 THEN pts ELSE perm]
    /\ InitView
    /\ polygon = NoPolygon
    /\ turn = NoTurn

\* ---------------------------------------------------------------- actions

\* Faulty variant: the emptiness test left out.
try_new_accepts_empty(v) ==
    /\ result[v] = "NotCalled"
    /\ IF Len(points[v]) = 0
       THEN /\ result' = [result EXCEPT ![v] = "Ok"]
            /\ UNCHANGED <<leftmost_point, current_point>>
       ELSE IF unwrap_panics(points[v])
       THEN /\ result' = [result EXCEPT ![v] = "Panic"]
            /\ UNCHANGED <<leftmost_point, current_point>>
       ELSE LET leftmost == min_by(points[v])
            IN  /\ result' = [result EXCEPT ![v] = "Ok"]
                /\ leftmost_point' = [leftmost_point EXCEPT ![v] = leftmost]
                /\ current_point' = [current_point EXCEPT ![v] = leftmost]
    /\ UNCHANGED <<points, state, ret, calls, exhausted, hull, polygon, turn>>

\* Faulty variant: the emptiness test written as len() <= 1.
try_new_rejects_single(v) ==
    /\ result[v] = "NotCalled"
    /\ IF Len(points[v]) <= 1
       THEN /\ result' = [result EXCEPT ![v] = "Err"]
            /\ UNCHANGED <<leftmost_point, current_point>>
       ELSE IF unwrap_panics(points[v])
       THEN /\ result' = [result EXCEPT ![v] = "Panic"]
            /\ UNCHANGED <<leftmost_point, current_point>>
       ELSE LET leftmost == min_by(points[v])
            IN  /\ result' = [result EXCEPT ![v] = "Ok"]
                /\ leftmost_point' = [leftmost_point EXCEPT ![v] = leftmost]
                /\ current_point' = [current_point EXCEPT ![v] = leftmost]
    /\ UNCHANGED <<points, state, ret, calls, exhausted, hull, polygon, turn>>

\* Faulty variant: current_point initialised with Point::default().
try_new_default_current(v) ==
    /\ result[v] = "NotCalled"
    /\ IF Len(points[v]) = 0
       THEN /\ result' = [result EXCEPT ![v] = "Err"]
            /\ UNCHANGED <<leftmost_point, current_point>>
       ELSE IF unwrap_panics(points[v])
       THEN /\ result' = [result EXCEPT ![v] = "Panic"]
            /\ UNCHANGED <<leftmost_point, current_point>>
       ELSE LET leftmost == min_by(points[v])
            IN  /\ result' = [result EXCEPT ![v] = "Ok"]
                /\ leftmost_point' = [leftmost_point EXCEPT ![v] = leftmost]
                /\ current_point' = [current_point EXCEPT ![v] = Point(0, 0)]
    /\ UNCHANGED <<points, state, ret, calls, exhausted, hull, polygon, turn>>

\* ConvexHull::try_new(points)
try_new(v) ==
    /\ result[v] = "NotCalled"
    /\ IF Len(points[v]) = 0
       THEN /\ result' = [result EXCEPT ![v] = "Err"]
            /\ UNCHANGED <<leftmost_point, current_point>>
       ELSE IF unwrap_panics(points[v])
       THEN /\ result' = [result EXCEPT ![v] = "Panic"]
            /\ UNCHANGED <<leftmost_point, current_point>>
       ELSE LET leftmost == min_by(points[v])
            IN  /\ result' = [result EXCEPT ![v] = "Ok"]
                /\ leftmost_point' = [leftmost_point EXCEPT ![v] = leftmost]
                /\ current_point' = [current_point EXCEPT ![v] = leftmost]
    /\ UNCHANGED <<points, state, ret, calls, exhausted, hull, polygon, turn>>

\* Bookkeeping of a call to next that returns r.
Returned(v, r) ==
    /\ ret' = [ret EXCEPT ![v] = r]
    /\ calls' = [calls EXCEPT ![v] = IF @ = "none" THEN "one" ELSE "many"]
    /\ exhausted' = [exhausted EXCEPT ![v] = @ \/ r = None]
    /\ hull' = [hull EXCEPT ![v] =
                  IF r # None /\ ~exhausted[v] /\ Len(@) <= Len(points[v])
                  THEN Append(@, r[1])
                  ELSE @]

\* let first_point = *self.points.first().unwrap() panics on an empty slice.
first_unwrap_panics(pts) == Len(pts) = 0

\* Faulty variant: leftmost_point assigned along with current_point.
find_next_point_moves_leftmost(v) ==
    IF first_unwrap_panics(points[v])
    THEN /\ result' = [result EXCEPT ![v] = "Panic"]
         /\ calls' = [calls EXCEPT ![v] = IF @ = "none" THEN "one" ELSE "many"]
         /\ UNCHANGED <<points, leftmost_point, current_point, state, ret,
                        exhausted, hull, polygon, turn>>
    ELSE
    LET found == scan(points[v], current_point[v])
    IN  /\ current_point' = [current_point EXCEPT ![v] = found]
        /\ leftmost_point' = [leftmost_point EXCEPT ![v] = found]
        /\ Returned(v, IF point_eq(leftmost_point[v], found) THEN None ELSE Some(found))
        /\ UNCHANGED <<points, result, state, polygon, turn>>

\* Faulty variant: the termination check left out.
find_next_point_never_ends(v) ==
    IF first_unwrap_panics(points[v])
    THEN /\ result' = [result EXCEPT ![v] = "Panic"]
         /\ calls' = [calls EXCEPT ![v] = IF @ = "none" THEN "one" ELSE "many"]
         /\ UNCHANGED <<points, leftmost_point, current_point, state, ret,
                        exhausted, hull, polygon, turn>>
    ELSE
    LET found == scan(points[v], current_point[v])
    IN  /\ current_point' = [current_point EXCEPT ![v] = found]
        /\ Returned(v, Some(found))
        /\ UNCHANGED <<points, result, leftmost_point, state, polygon, turn>>

\* Faulty variant: the termination check made against the first input point.
find_next_point_first_sentinel(v) ==
    IF first_unwrap_panics(points[v])
    THEN /\ result' = [result EXCEPT ![v] = "Panic"]
         /\ calls' = [calls EXCEPT ![v] = IF @ = "none" THEN "one" ELSE "many"]
         /\ UNCHANGED <<points, leftmost_point, current_point, state, ret,
                        exhausted, hull, polygon, turn>>
    ELSE
    LET found == scan(points[v], current_point[v])
    IN  /\ current_point' = [current_point EXCEPT ![v] = found]
        /\ Returned(v, IF point_eq(points[v][1], found) THEN None ELSE Some(found))
        /\ UNCHANGED <<points, result, leftmost_point, state, polygon, turn>>

\* ConvexHull::find_next_point(&mut self)
find_next_point(v) ==
    IF first_unwrap_panics(points[v])
    THEN /\ result' = [result EXCEPT ![v] = "Panic"]
         /\ calls' = [calls EXCEPT ![v] = IF @ = "none" THEN "one" ELSE "many"]
         /\ UNCHANGED <<points, leftmost_point, current_point, state, ret,
                        exhausted, hull, polygon, turn>>
    ELSE
    LET found == scan(points[v], current_point[v])
    IN  /\ current_point' = [current_point EXCEPT ![v] = found]
        /\ Returned(v, IF point_eq(leftmost_point[v], found) THEN None ELSE Some(found))
        /\ UNCHANGED <<points, result, leftmost_point, state, polygon, turn>>

\* Faulty variant: the first call leaves the state Initial.
next_stays_initial(v) ==
    /\ result[v] = "Ok"
    /\ \/ /\ state[v] = "Initial"
          /\ Returned(v, Some(leftmost_point[v]))
          /\ UNCHANGED <<points, result, leftmost_point, current_point, state,
                         polygon, turn>>
       \/ /\ state[v] = "FindingNextPoint"
          /\ find_next_point(v)

\* <ConvexHull as Iterator>::next(&mut self)
next(v) ==
    /\ result[v] = "Ok"
    /\ \/ /\ state[v] = "Initial"
          /\ state' = [state EXCEPT ![v] = "FindingNextPoint"]
          /\ Returned(v, Some(leftmost_point[v]))
          /\ UNCHANGED <<points, result, leftmost_point, current_point, polygon,
                         turn>>
       \/ /\ state[v] = "FindingNextPoint"
          /\ find_next_point(v)

\* The caller of Spec constructs and consumes view 1 only.
Next ==
    \/ try_new(1)
    \/ next(1)

Spec == Init /\ [][Next]_vars

\* The caller of PermSpec constructs and consumes both views.
PermNext ==
    \/ \E v \in Views : try_new(v)
    \/ \E v \in Views : next(v)

PermSpec == PermInit /\ [][PermNext]_vars

\* A caller that keeps pulling from view 1 for as long as it may.
FairSpec == Spec /\ WF_vars(Next)

\* The caller of Spec, given an input with a NaN coordinate.
NaNSpec == NaNInit /\ [][Next]_vars

\* A caller holding a polygon and a point; no hull view is in use.
PolygonInit ==
    /\ points = [v \in Views |-> <<>>]
    /\ InitView
    /\ turn = NoTurn
    /\ \/ \E vs \in SeqsUpTo(GridPoints, MaxVertices) : \E q \in GridPoints :
             polygon = [vertices |-> vs, point |-> q, contains_point |-> "NotCalled"]
       \/ \E q \in TestQueries :
             polygon = [vertices |-> TestPolygon, point |-> q,
                        contains_point |-> "NotCalled"]

\* A call of polygon.contains_point(point)
call_contains_point ==
    /\ polygon.contains_point = "NotCalled"
    /\ polygon' = [polygon EXCEPT !.contains_point =
                      IF contains_point(polygon.vertices, polygon.point)
                      THEN "true" ELSE "false"]
    /\ UNCHANGED <<points, result, leftmost_point, current_point, state, ret,
                   calls, exhausted, hull, turn>>

PolygonNext == call_contains_point

PolygonSpec == PolygonInit /\ [][PolygonNext]_vars

\* A caller holding three points; no hull view and no polygon is in use.
TurnInit ==
    /\ points = [v \in Views |-> <<>>]
    /\ InitView
    /\ polygon = NoPolygon
    /\ \E a, b, c \in GridPoints :
         turn = [p1 |-> a, p2 |-> b, p3 |-> c,
                 is_counter_clockwise_turn |-> "NotCalled"]

\* A call of is_counter_clockwise_turn(p1, p2, p3)
call_is_counter_clockwise_turn ==
    /\ turn.is_counter_clockwise_turn = "NotCalled"
    /\ turn' = [turn EXCEPT !.is_counter_clockwise_turn =
                   IF is_counter_clockwise_turn(turn.p1, turn.p2, turn.p3)
                   THEN "true" ELSE "false"]
    /\ UNCHANGED <<points, result, leftmost_point, current_point, state, ret,
                   calls, exhausted, hull, polygon>>

TurnNext == call_is_counter_clockwise_turn

TurnSpec == TurnInit /\ [][TurnNext]_vars

\* ------------------------------------------------------- claim vocabulary

Range(s) == {s[i] : i \in 1..Len(s)}

\* The orientation quantity of the specification's section 4.1.
Orientation(p1, p2, p3) ==
    (p3.y - p1.y) * (p2.x - p1.x) - (p2.y - p1.y) * (p3.x - p1.x)

\* a is not after b in the lexicographic order (x, then y).
LexLeq(a, b) == a.x < b.x \/ (a.x = b.x /\ a.y <= b.y)

NoRepeat(s) == \A i, j \in 1..Len(s) : s[i] = s[j] => i = j

\* The element after s[i] in the cycle s.
After(s, i) == s[(i % Len(s)) + 1]

\* s read cyclically from its element k + 1.
Rotate(s, k) == [i \in 1..Len(s) |-> s[((i + k - 1) % Len(s)) + 1]]

Collinear(S) == \A a, b, c \in S : Orientation(a, b, c) = 0

\* q lies in the closed triangle a, b, c.
InTriangle(q, a, b, c) ==
    \/ /\ Orientation(a, b, q) >= 0
       /\ Orientation(b, c, q) >= 0
       /\ Orientation(c, a, q) >= 0
    \/ /\ Orientation(a, b, q) <= 0
       /\ Orientation(b, c, q) <= 0
       /\ Orientation(c, a, q) <= 0

\* All distinct, no three collinear, none inside the hull of the others
\* (for four or more points: none inside the triangle of three others).
StrictlyConvexPosition(s) ==
    LET n == Len(s)
    IN  /\ NoRepeat(s)
        /\ \A i, j, k \in 1..n :
             (i < j /\ j < k) => Orientation(s[i], s[j], s[k]) # 0
        /\ \A m, i, j, k \in 1..n :
             (i < j /\ j < k /\ m # i /\ m # j /\ m # k)
                 => ~InTriangle(s[m], s[i], s[j], s[k])

\* ------------------------------------------------------------------ claims

\* C1: for every non-empty input, repeated calls to next eventually return
\* None.  Stated for a caller that keeps calling next (FairSpec).
C1_Terminates == (result[1] = "Ok") ~> exhausted[1]

\* C2: try_new returns an error if and only if the input is empty.
C2_ErrIffEmpty ==
    result[1] # "NotCalled" =>
        (result[1] = "Err" <=> Len(points[1]) = 0)

C2_Witness ==
    /\ result[1] = "Err"
    /\ points[1] = <<>>

\* C3: once the view is exhausted, every input point lies on or to the
\* non-clockwise side of every edge of the closed polygon of yielded points.
C3_Closure ==
    exhausted[1] =>
        \A i \in 1..Len(hull[1]) : \A q \in Range(points[1]) :
            Orientation(hull[1][i], After(hull[1], i), q) >= 0

\* C4: the views over an input and over a reordering of it yield the same
\* set of vertices in the same cyclic order.
C4_OrderIndependent ==
    (exhausted[1] /\ exhausted[2]) =>
        /\ Range(hull[1]) = Range(hull[2])
        /\ Len(hull[1]) = Len(hull[2])
        /\ \E k \in 0..(Len(hull[1]) - 1) : hull[2] = Rotate(hull[1], k)

\* C5: the first point yielded is the lexicographically smallest input point.
C5_FirstIsSmallest ==
    Len(hull[1]) >= 1 =>
        /\ hull[1][1] \in Range(points[1])
        /\ \A q \in Range(points[1]) : LexLeq(hull[1][1], q)

C5_Witness ==
    /\ calls[1] = "one"
    /\ ret[1] = Some(leftmost_point[1])
    /\ Len(points[1]) = MaxLen
    /\ points[1][1] # leftmost_point[1]
    /\ points[1][MaxLen] # leftmost_point[1]

\* C6: every yielded point, and current_point in every state of a
\* constructed view, is an element of the input.
C6_FromInput ==
    result[1] = "Ok" =>
        /\ current_point[1] \in Range(points[1])
        /\ Range(hull[1]) \subseteq Range(points[1])
        /\ Range(ret[1]) \subseteq Range(points[1])

C6_Witness ==
    /\ calls[1] = "many"
    /\ ret[1] # None
    /\ Len(hull[1]) >= 3
    /\ current_point[1] = ret[1][1]

\* C7: when all input points lie on one line (at least two distinct), only
\* the two extreme points of the line are yielded, the smaller first.
C7_CollinearExtremes ==
    (Collinear(Range(points[1])) /\ Cardinality(Range(points[1])) >= 2) =>
        /\ \A i \in 1..Len(hull[1]) :
             \/ \A q \in Range(points[1]) : LexLeq(hull[1][i], q)
             \/ \A q \in Range(points[1]) : LexLeq(q, hull[1][i])
        /\ exhausted[1] => Len(hull[1]) = 2

\* C8: once next has returned None, every later call returns None.
C8_StaysExhausted == exhausted[1] => ret[1] = None

\* C9: no point value is yielded twice before the end of the sequence.
C9_NoRepeat == NoRepeat(hull[1])

\* C10: for an input in strictly convex position, in any order, the view
\* yields every input point exactly once, counter-clockwise from the
\* lexicographically smallest one; an input already in that order is
\* yielded unchanged.
C10_ConvexPosition ==
    StrictlyConvexPosition(points[1]) =>
        /\ Len(hull[1]) <= Len(points[1])
        /\ NoRepeat(hull[1])
        /\ Range(hull[1]) \subseteq Range(points[1])
        /\ Len(hull[1]) >= 1 => \A q \in Range(points[1]) : LexLeq(hull[1][1], q)
        /\ \A i \in 1..(Len(hull[1]) - 1) :
             \A q \in Range(points[1]) \ {hull[1][i], hull[1][i + 1]} :
                 Orientation(hull[1][i], hull[1][i + 1], q) > 0
        /\ exhausted[1] =>
             /\ Len(hull[1]) = Len(points[1])
             /\ (\A i \in 1..(Len(points[1]) - 1) :
                    \A q \in Range(points[1]) \ {points[1][i], points[1][i + 1]} :
                        Orientation(points[1][i], points[1][i + 1], q) > 0)
                /\ (\A q \in Range(points[1]) : LexLeq(points[1][1], q))
                => hull[1] = points[1]

C10_Witness ==
    /\ StrictlyConvexPosition(points[1])
    /\ points[1] = InputNotSorted
    /\ exhausted[1]
    /\ hull[1] = InputInHullOrder

\* q lies strictly inside the convex hull of the points of S other than q:
\* no line through q and another point has all of S on one closed side.
StrictlyInside(q, S) ==
    /\ S \ {q} # {}
    /\ \A a \in S \ {q} :
         /\ \E p \in S : Orientation(q, a, p) > 0
         /\ \E p \in S : Orientation(q, a, p) < 0

\* C11: an input point strictly inside the convex hull of the other input
\* points is never yielded.
C11_InteriorNeverYielded ==
    \A i \in 1..Len(hull[1]) : ~StrictlyInside(hull[1][i], Range(points[1]))

\* C12: over a single-point input the first call to next yields that point
\* and the second returns None.
C12_SinglePoint ==
    Len(points[1]) = 1 =>
        /\ calls[1] = "one" => (ret[1] = Some(points[1][1]) /\ ~exhausted[1])
        /\ calls[1] = "many" => (ret[1] = None /\ hull[1] = points[1])

C12_Witness ==
    /\ Len(points[1]) = 1
    /\ calls[1] = "many"
    /\ ret[1] = None
    /\ hull[1] = points[1]

\* q lies on the segment from a to b.
OnSegment(q, a, b) ==
    /\ Orientation(a, b, q) = 0
    /\ (q.x - a.x) * (q.x - b.x) <= 0
    /\ (q.y - a.y) * (q.y - b.y) <= 0

\* q lies on an edge of the closed polygon vs.
OnBorder(q, vs) == \E i \in 1..Len(vs) : OnSegment(q, vs[i], After(vs, i))

\* At least three vertices, every turn strictly the same way round.
ConvexPolygon(vs) ==
    /\ Len(vs) >= 3
    /\ \/ \A i \in 1..Len(vs) :
            Orientation(vs[i], After(vs, i), After(vs, (i % Len(vs)) + 1)) > 0
       \/ \A i \in 1..Len(vs) :
            Orientation(vs[i], After(vs, i), After(vs, (i % Len(vs)) + 1)) < 0

\* C14: contains_point is true for every point on the border of a convex
\* polygon, the closing edge and the vertices included.
C14_BorderContained ==
    (/\ polygon.contains_point # "NotCalled"
     /\ ConvexPolygon(polygon.vertices)
     /\ OnBorder(polygon.point, polygon.vertices))
        => polygon.contains_point = "true"

\* C15: when an input point has a NaN coordinate, try_new panics, whatever
\* the size of the input.
C15_NaNPanics ==
    (has_nan(points[1]) /\ result[1] # "NotCalled") => result[1] = "Panic"

\* C16: a step of find_next_point selects an endpoint with no input point
\* strictly clockwise of the edge from the old current_point to it.
C16_EndpointWidest ==
    [][state[1] = "FindingNextPoint" =>
          \A q \in Range(points[1]) :
              is_counter_clockwise_turn(q, current_point[1], current_point'[1])]_vars

\* C17: a step of find_next_point never yields the current_point it started
\* from; current_point stays the same only when every input point equals
\* it, and then it is leftmost_point and the step returns None.
C17_Progress ==
    [][state[1] = "FindingNextPoint" =>
          /\ ret'[1] # None => ret'[1][1] # current_point[1]
          /\ current_point'[1] = current_point[1] =>
                /\ \A q \in Range(points[1]) : q = current_point[1]
                /\ current_point[1] = leftmost_point[1]
                /\ ret'[1] = None]_vars

\* A step has started from a current_point that the input holds twice.
C17_Witness ==
    /\ Len(hull[1]) >= 2
    /\ ~exhausted[1]
    /\ ret[1] = Some(hull[1][Len(hull[1])])
    /\ Cardinality({i \in 1..Len(points[1]) :
                       points[1][i] = hull[1][Len(hull[1]) - 1]}) >= 2

\* C18: the first call to next yields leftmost_point and moves the state
\* from Initial to FindingNextPoint without changing current_point; the
\* state never returns to Initial, and every later call sets current_point
\* to the result of one scan.
C18_Phases ==
    [][/\ (state[1] = "Initial" /\ calls'[1] # calls[1]) =>
             /\ calls[1] = "none"
             /\ ret'[1] = Some(leftmost_point[1])
             /\ state'[1] = "FindingNextPoint"
             /\ current_point'[1] = current_point[1]
       /\ state[1] = "FindingNextPoint" =>
             /\ calls[1] # "none"
             /\ state'[1] = "FindingNextPoint"
             /\ current_point'[1] = scan(points[1], current_point[1])]_vars

C18_Witness ==
    /\ state[1] = "FindingNextPoint"
    /\ calls[1] = "many"
    /\ ret[1] # None
    /\ current_point[1] # leftmost_point[1]

\* C19: a step of find_next_point returns None exactly when the new
\* current_point equals leftmost_point and otherwise yields it; no call
\* after the first yields leftmost_point.
C19_EndAtLeftmost ==
    calls[1] = "many" =>
        /\ ret[1] = None <=> current_point[1] = leftmost_point[1]
        /\ ret[1] # None =>
              (ret[1] = Some(current_point[1]) /\ ret[1][1] # leftmost_point[1])

C19_Witness ==
    /\ calls[1] = "many"
    /\ ret[1] = None
    /\ current_point[1] = leftmost_point[1]
    /\ Len(hull[1]) >= 3

\* C20: is_counter_clockwise_turn is true exactly when the orientation
\* quantity is >= 0; so it is true of collinear triples and of triples with
\* two equal points.
C20_TurnIsOrientation ==
    turn.is_counter_clockwise_turn # "NotCalled" =>
        /\ turn.is_counter_clockwise_turn = "true"
              <=> Orientation(turn.p1, turn.p2, turn.p3) >= 0
        /\ (turn.p1 = turn.p2 \/ turn.p2 = turn.p3 \/ turn.p1 = turn.p3)
              => turn.is_counter_clockwise_turn = "true"

\* The call has returned true for three distinct collinear points.
C20_Witness ==
    /\ turn.is_counter_clockwise_turn = "true"
    /\ turn.p1 # turn.p2 /\ turn.p2 # turn.p3 /\ turn.p1 # turn.p3
    /\ Orientation(turn.p1, turn.p2, turn.p3) = 0

\* The edge vectors (p2 - p1) and (p3 - p1) of the triple held by turn, and
\* Vector::cross_product applied to them in that order.
EdgeCrossProduct ==
    cross_product(vector_sub(turn.p2, turn.p1), vector_sub(turn.p3, turn.p1))

\* C21, as amended: the orientation quantity of p1, p2, p3 equals
\* Vector::cross_product of the edge vectors (p2 - p1) and (p3 - p1), not
\* its negation; so is_counter_clockwise_turn is true exactly when that
\* cross product is >= 0.
C21_QuantityIsCrossProduct ==
    turn.is_counter_clockwise_turn # "NotCalled" =>
        /\ Orientation(turn.p1, turn.p2, turn.p3) = EdgeCrossProduct
        /\ turn.is_counter_clockwise_turn = "true" <=> EdgeCrossProduct >= 0

\* The call has returned for a triple whose quantity is not zero, of either
\* sign.
C21_Witness ==
    /\ turn.is_counter_clockwise_turn = "false"
    /\ Orientation(turn.p1, turn.p2, turn.p3) < 0
    /\ EdgeCrossProduct < 0

\* C21, as stated: the orientation quantity of p1, p2, p3 equals the
\* negation of Vector::cross_product of the edge vectors (p2 - p1) and
\* (p3 - p1).
C21_NegatedCrossProduct ==
    turn.is_counter_clockwise_turn # "NotCalled" =>
        Orientation(turn.p1, turn.p2, turn.p3) = -EdgeCrossProduct

\* C22: once try_new has succeeded on an input without NaN, no call to next
\* panics: the input has a first element for the scan to start from, and
\* current_point and every yielded point are elements of the input.
C22_NextNeverPanics ==
    (result[1] \in {"Ok", "Panic"} /\ ~has_nan(points[1])) =>
        /\ result[1] = "Ok"
        /\ ~first_unwrap_panics(points[1])
        /\ current_point[1] \in Range(points[1])
        /\ ret[1] # None => ret[1][1] \in Range(points[1])

\* The scan has run to the end of the sequence over several points.
C22_Witness ==
    /\ result[1] = "Ok"
    /\ calls[1] = "many"
    /\ exhausted[1]
    /\ Len(points[1]) >= 2

\* C23: a call to next leaves the input sequence (its elements and their
\* order) and leftmost_point as they were; of the view's fields only
\* current_point and state may change.
C23_NextFrame ==
    [][result[1] = "Ok" =>
          /\ points'[1] = points[1]
          /\ leftmost_point'[1] = leftmost_point[1]]_vars

\* Calls to next have moved current_point away from leftmost_point, which
\* is still the first point yielded.
C23_Witness ==
    /\ calls[1] = "many"
    /\ Len(hull[1]) >= 3
    /\ ~exhausted[1]
    /\ leftmost_point[1] = hull[1][1]
    /\ current_point[1] = hull[1][Len(hull[1])]
    /\ current_point[1] # leftmost_point[1]

====
